---- MODULE Spec2Model ----
(***************************************************************************)
(* Model of src/server.js: an Express service with a SQLite table of      *)
(* reminders (list / insert / delete) and two proxies to a generative     *)
(* text model (suggestions, chat).                                        *)
(*                                                                        *)
(* Text that the program compares or converts is a sequence of ASCII      *)
(* codes, so that ordering and conversions are computed, not assumed.     *)
(***************************************************************************)
EXTENDS Integers, Sequences, FiniteSets, TLC

VARIABLES
    table,     \* the rows of table reminders
    seq,       \* sqlite_sequence: the largest id AUTOINCREMENT has assigned
    req,       \* per client, its reminder request: queued, executed or replied
    log,       \* what console.error has written
    ai,        \* the suggestion or chat request being served
    issued,    \* history: how many reminder requests have been sent
    acked,     \* history: the reminders acknowledged with an id, less those a
               \*   delete has since been requested for
    returned   \* history: the ids returned by inserts, in the order returned

\* The fields must, before, deletes, held and snapshot of a request are history
\* too: what had been acknowledged when a list was requested, the ids returned
\* before an insert was requested, the deletes requested while an insert was in
\* flight, the ids held when an INSERT ran, the table when a SELECT ran.

vars == <<table, seq, req, issued, acked, returned, log, ai>>

\* ------------------------------------------------------------------ bounds

\* Number of HTTP clients whose reminder requests may be in flight together.
NClients == 2

\* Number of reminder requests issued in one behaviour.
MaxRequests == 3

\* Longest chat message, in characters.
MaxMsgLen == 4

Clients == 1..NClients

\* ------------------------------------------------------- values and inputs

\* JavaScript values of a request body field.
Undefined == [js |-> "undefined"]
JsString(s) == [js |-> "string", v |-> s]

\* SQLite values: a storage class and a payload.
SqlNull == [cls |-> "null"]
SqlInteger(n) == [cls |-> "integer", v |-> n]
SqlText(s) == [cls |-> "text", v |-> s]

\* "2024-01-01T08:00:00", "2024-01-02T08:00:00" and "10" as ASCII codes.
TimeJan1 == <<50,48,50,52,45,48,49,45,48,49,84,48,56,58,48,48,58,48,48>>
TimeJan2 == <<50,48,50,52,45,48,49,45,48,50,84,48,56,58,48,48,58,48,48>>
TimeTen == <<49,48>>

\* The activity and scheduled_time fields a client may send.
ActivityInputs == {Undefined, JsString(""), JsString("Meditate")}
TimeInputs == {Undefined, JsString(TimeJan1), JsString(TimeJan2), JsString(TimeTen)}

\* The :id path segments a client may send: "1", "01", "abc".
PathIds == {<<49>>, <<48,49>>, <<97,98,99>>}

\* Errors the storage layer may raise on any statement.
StorageErrors == {"SQLITE_BUSY: database is locked", "SQLITE_IOERR: disk I/O error"}

\* ------------------------------------------------------- SQLite semantics

IsDigit(ch) == ch \in 48..57

\* A well-formed integer literal (the inputs hold no sign, blank or fraction).
IsIntegerLiteral(s) == Len(s) > 0 /\ \A i \in 1..Len(s) : IsDigit(s[i])

RECURSIVE ToInteger(_)
ToInteger(s) ==
    IF Len(s) = 0 THEN 0
    ELSE 10 * ToInteger(SubSeq(s, 1, Len(s) - 1)) + (s[Len(s)] - 48)

\* node-sqlite3 binds a string as TEXT and leaves an undefined parameter unbound (NULL).
Bind(x) == IF x.js = "string" THEN SqlText(x.v) ELSE SqlNull

\* Column affinity NUMERIC (declared type DATETIME): text that is a well-formed
\* numeric literal is stored as that number, any other text stays text.
NumericAffinity(x) ==
    IF x.cls = "text" /\ IsIntegerLiteral(x.v) THEN SqlInteger(ToInteger(x.v)) ELSE x

\* Column affinity TEXT (declared type TEXT): text is stored as it is.
TextAffinity(x) == x

\* Column affinity INTEGER applied to the text parameter of  id = ? .
IntegerAffinity(x) ==
    IF x.cls = "text" /\ IsIntegerLiteral(x.v) THEN SqlInteger(ToInteger(x.v)) ELSE x

RECURSIVE BytesLess(_, _)
\* memcmp order of two texts (collation BINARY).
BytesLess(s, t) ==
    IF Len(t) = 0 THEN FALSE
    ELSE IF Len(s) = 0 THEN TRUE
    ELSE IF s[1] # t[1] THEN s[1] < t[1]
    ELSE BytesLess(Tail(s), Tail(t))

\* SQLite's sort order: NULL, then numbers by value, then text by bytes.
ClassRank(x) == CASE x.cls = "null" -> 0 [] x.cls = "integer" -> 1 [] x.cls = "text" -> 2

SqlLess(x, y) ==
    IF ClassRank(x) # ClassRank(y) THEN ClassRank(x) < ClassRank(y)
    ELSE CASE x.cls = "null" -> FALSE
           [] x.cls = "integer" -> x.v < y.v
           [] x.cls = "text" -> BytesLess(x.v, y.v)

\* ------------------------------------------------------- the reminders table

\* Outcome code of a statement that raised no error (callback's err is null).
NoError == "null"

Max(a, b) == IF a > b THEN a ELSE b

RECURSIVE MaxRowid(_)
MaxRowid(tbl) ==
    IF tbl = {} THEN 0
    ELSE LET r == CHOOSE x \in tbl : TRUE
         IN Max(r.id, MaxRowid(tbl \ {r}))

\* Mutant: id INTEGER PRIMARY KEY without AUTOINCREMENT, one more than the
\* largest id the table holds now.
NextRowidOfTable(tbl, sq) == MaxRowid(tbl) + 1

\* id INTEGER PRIMARY KEY AUTOINCREMENT: one more than the largest id the table
\* ever held, which sqlite_sequence (seq) remembers across deletes.
NextRowid(tbl, sq) == Max(sq, MaxRowid(tbl)) + 1

\* Mutant: scheduled_time declared without NOT NULL.
ConstraintErrorActivityOnly(a, t) ==
    IF a.cls = "null" THEN "SQLITE_CONSTRAINT: NOT NULL constraint failed: reminders.activity"
    ELSE NoError

\* activity TEXT NOT NULL, scheduled_time DATETIME NOT NULL.
ConstraintError(a, t) ==
    IF a.cls = "null" THEN "SQLITE_CONSTRAINT: NOT NULL constraint failed: reminders.activity"
    ELSE IF t.cls = "null" THEN "SQLITE_CONSTRAINT: NOT NULL constraint failed: reminders.scheduled_time"
    ELSE NoError

\* completed BOOLEAN DEFAULT 0: the INSERT names no value for it.
CompletedDefault == 0

\* The row INSERT INTO reminders (activity, scheduled_time) VALUES (?, ?) stores.
NewRow(id, a, t) ==
    [id |-> id,
     activity |-> TextAffinity(Bind(a)),
     scheduled_time |-> NumericAffinity(Bind(t)),
     completed |-> CompletedDefault]

\* WHERE id = ? with the path segment bound as text.
IdMatches(id, path) ==
    LET p == IntegerAffinity(SqlText(path))
    IN p.cls = "integer" /\ p.v = id

\* Mutant: DELETE FROM reminders, the WHERE clause left out.
DeleteEveryRow(tbl, path) == {}

\* DELETE FROM reminders WHERE id = ?
DeleteRows(tbl, path) == {r \in tbl : ~IdMatches(r.id, path)}

Range(s) == {s[i] : i \in 1..Len(s)}

RECURSIVE Listings(_)
\* Every order in which the rows of a table can be listed.
Listings(tbl) ==
    IF tbl = {} THEN {<<>>}
    ELSE UNION {{<<r>> \o s : s \in Listings(tbl \ {r})} : r \in tbl}

\* ORDER BY scheduled_time DESC: no row is followed by one that sorts after it.
OrderedDesc(s) ==
    \A i \in 1..Len(s) - 1 : ~SqlLess(s[i].scheduled_time, s[i + 1].scheduled_time)

\* Mutant: SELECT * FROM reminders ORDER BY scheduled_time (ascending).
SelectAllAscending(tbl) ==
    {s \in Listings(tbl) :
        \A i \in 1..Len(s) - 1 : ~SqlLess(s[i + 1].scheduled_time, s[i].scheduled_time)}

\* SELECT * FROM reminders ORDER BY scheduled_time DESC: the order of rows with
\* equal scheduled_time is not determined by the statement.
SelectAll(tbl) == {s \in Listings(tbl) : OrderedDesc(s)}

\* ------------------------------------------------------- reminder handlers

\* r with the fields of s added or replaced.
With(r, s) == [x \in DOMAIN r \cup DOMAIN s |-> IF x \in DOMAIN s THEN s[x] ELSE r[x]]

\* A client may send a request when it has none in flight.
CanIssue(c) == req[c].pc \in {"idle", "replied"} /\ issued < MaxRequests

\* The requests of other clients that are in flight.
InFlight(c) == req[c].pc \in {"queued", "executed"}

\* app.get('/api/reminders') callback: res.status(500).json({error: err.message}) or res.json(rows).
ListReply(err, rows) ==
    IF err # NoError THEN [status |-> 500, body |-> [error |-> err]]
    ELSE [status |-> 200, body |-> [rows |-> rows]]

\* Mutant: the id is read from the connection when the callback runs
\* (the last rowid any statement inserted), not from the statement.
InsertReplyOfConnection(err, lastID) ==
    IF err # NoError THEN [status |-> 500, body |-> [error |-> err]]
    ELSE [status |-> 200, body |-> [id |-> seq]]

\* app.post('/api/reminders') callback: {error: err.message} or {id: this.lastID}.
InsertReply(err, lastID) ==
    IF err # NoError THEN [status |-> 500, body |-> [error |-> err]]
    ELSE [status |-> 200, body |-> [id |-> lastID]]

\* app.delete('/api/reminders/:id') callback: {error: err.message} or {message: 'Reminder deleted'}.
DeleteReply(err) ==
    IF err # NoError THEN [status |-> 500, body |-> [error |-> err]]
    ELSE [status |-> 200, body |-> [message |-> "Reminder deleted"]]

\* What the callbacks of the reminder handlers write to the server log: nothing.
StoreLog(err) == {}

\* The acknowledged reminders that a delete of path would remove.
Undeleted(set, path) == {k \in set : ~IdMatches(k.id, path)}

\* The paths of the deletes that have been requested and have not run yet.
QueuedDeletes == {req[d].path : d \in {e \in Clients : req[e].pc = "queued" /\ req[e].op = "delete"}}

\* GET /api/reminders: the handler queues the SELECT.
GetReminders(c) ==
    /\ CanIssue(c)
    /\ req' = [req EXCEPT ![c] = [pc |-> "queued", op |-> "select", must |-> acked]]
    /\ issued' = issued + 1
    /\ UNCHANGED <<table, seq, acked, returned, log, ai>>

\* POST /api/reminders: the handler reads activity and scheduled_time from the
\* body and queues the INSERT.
PostReminder(c) ==
    /\ CanIssue(c)
    /\ \E a \in ActivityInputs, t \in TimeInputs :
          req' = [req EXCEPT ![c] = [pc |-> "queued", op |-> "insert", activity |-> a,
                                     scheduled_time |-> t, before |-> Range(returned),
                                     deletes |-> QueuedDeletes]]
    /\ issued' = issued + 1
    /\ UNCHANGED <<table, seq, acked, returned, log, ai>>

\* DELETE /api/reminders/:id: the handler queues the DELETE.
DeleteReminder(c) ==
    /\ CanIssue(c)
    /\ \E path \in PathIds :
          /\ req' = [d \in Clients |->
                       IF d = c THEN [pc |-> "queued", op |-> "delete", path |-> path]
                       ELSE IF InFlight(d) /\ req[d].op = "select"
                            THEN With(req[d], [must |-> Undeleted(req[d].must, path)])
                       ELSE IF InFlight(d) /\ req[d].op = "insert"
                            THEN With(req[d], [deletes |-> req[d].deletes \cup {path}])
                       ELSE req[d]]
          /\ acked' = Undeleted(acked, path)
    /\ issued' = issued + 1
    /\ UNCHANGED <<table, seq, returned, log, ai>>

\* The database runs a queued SELECT as one statement.
RunSelect(c) ==
    /\ req[c].pc = "queued" /\ req[c].op = "select"
    /\ \E rows \in SelectAll(table) :
          req' = [req EXCEPT ![c] = With(req[c], [pc |-> "executed", err |-> NoError,
                                                  rows |-> rows, snapshot |-> table])]
    /\ UNCHANGED <<table, seq, issued, acked, returned, log, ai>>

\* The database runs a queued INSERT as one statement: a constraint failure
\* leaves the table and the sequence as they were.
RunInsert(c) ==
    /\ req[c].pc = "queued" /\ req[c].op = "insert"
    /\ LET a == req[c].activity
           t == req[c].scheduled_time
           err == ConstraintError(Bind(a), Bind(t))
           id == NextRowid(table, seq)
       IN IF err # NoError
          THEN /\ req' = [req EXCEPT ![c] = With(req[c], [pc |-> "executed", err |-> err, lastID |-> 0, held |-> {}])]
               /\ UNCHANGED <<table, seq>>
          ELSE /\ table' = table \cup {NewRow(id, a, t)}
               /\ seq' = id
               /\ req' = [req EXCEPT ![c] =
                             With(req[c], [pc |-> "executed", err |-> NoError, lastID |-> id,
                                           held |-> {r.id : r \in table}])]
    /\ UNCHANGED <<issued, acked, returned, log, ai>>

\* The database runs a queued DELETE as one statement.
RunDelete(c) ==
    /\ req[c].pc = "queued" /\ req[c].op = "delete"
    /\ table' = DeleteRows(table, req[c].path)
    /\ req' = [req EXCEPT ![c] =
                  With(req[c], [pc |-> "executed", err |-> NoError])]
    /\ UNCHANGED <<seq, issued, acked, returned, log, ai>>

\* A queued statement fails in the storage layer and changes nothing.
StatementFails(c) ==
    /\ req[c].pc = "queued"
    /\ \E e \in StorageErrors :
          req' = [req EXCEPT ![c] = With(req[c], [pc |-> "executed", err |-> e, lastID |-> 0, held |-> {},
                                                  rows |-> <<>>, snapshot |-> table])]
    /\ UNCHANGED <<table, seq, issued, acked, returned, log, ai>>

\* The callback of db.all runs and sends the response.
ListCallback(c) ==
    /\ req[c].pc = "executed" /\ req[c].op = "select"
    /\ req' = [req EXCEPT ![c] = With(req[c], [pc |-> "replied", resp |-> ListReply(req[c].err, req[c].rows)])]
    /\ log' = log \cup StoreLog(req[c].err)
    /\ UNCHANGED <<table, seq, issued, acked, returned, ai>>

\* The callback of the INSERT's db.run runs and sends the response.
InsertCallback(c) ==
    /\ req[c].pc = "executed" /\ req[c].op = "insert"
    /\ LET resp == InsertReply(req[c].err, req[c].lastID)
       IN /\ req' = [req EXCEPT ![c] = With(req[c], [pc |-> "replied", resp |-> resp])]
          /\ IF resp.status = 200
             THEN /\ returned' = Append(returned, resp.body.id)
                  /\ acked' = IF \E path \in req[c].deletes : IdMatches(resp.body.id, path)
                              THEN acked
                              ELSE acked \cup {[id |-> resp.body.id, activity |-> req[c].activity,
                                                scheduled_time |-> req[c].scheduled_time]}
             ELSE UNCHANGED <<returned, acked>>
    /\ log' = log \cup StoreLog(req[c].err)
    /\ UNCHANGED <<table, seq, issued, ai>>

\* The callback of the DELETE's db.run runs and sends the response.
DeleteCallback(c) ==
    /\ req[c].pc = "executed" /\ req[c].op = "delete"
    /\ req' = [req EXCEPT ![c] = With(req[c], [pc |-> "replied", resp |-> DeleteReply(req[c].err)])]
    /\ log' = log \cup StoreLog(req[c].err)
    /\ UNCHANGED <<table, seq, issued, acked, returned, ai>>

AiIdle == [pc |-> "idle"]

Init ==
    /\ table = {}
    /\ seq = 0
    /\ req = [c \in Clients |-> [pc |-> "idle"]]
    /\ issued = 0
    /\ acked = {}
    /\ returned = <<>>
    /\ log = {}
    /\ ai = AiIdle

Next ==
    \E c \in Clients :
        \/ GetReminders(c)
        \/ PostReminder(c)
        \/ DeleteReminder(c)
        \/ RunSelect(c)
        \/ RunInsert(c)
        \/ RunDelete(c)
        \/ StatementFails(c)
        \/ ListCallback(c)
        \/ InsertCallback(c)
        \/ DeleteCallback(c)

Spec == Init /\ [][Next]_vars

\* ------------------------------------------------------- the AI proxies

\* The characters chat messages are built from: D d i e t x.
MsgChars == {68, 100, 105, 101, 116, 120}

RECURSIVE SeqsUpTo(_, _)
\* The sequences over S of length at most n.
SeqsUpTo(S, n) ==
    IF n = 0 THEN {<<>>}
    ELSE LET shorter == SeqsUpTo(S, n - 1)
         IN shorter \cup {Append(s, x) : s \in {t \in shorter : Len(t) = n - 1}, x \in S}

\* The message field of a chat request body: a string, or missing.
MessageInputs == {Undefined} \cup {JsString(m) : m \in SeqsUpTo(MsgChars, MaxMsgLen)}

\* What the generative model may answer, and how a call to it may fail
\* (generateContent rejecting, or response.text() throwing).
UpstreamTexts == {"Take a short walk.", "Drink a glass of water."}
UpstreamErrors == {"fetch failed", "[429 Too Many Requests] quota exceeded"}

\* String.prototype.toLowerCase on ASCII text.
ToLowerCase(s) == [i \in 1..Len(s) |-> IF s[i] \in 65..90 THEN s[i] + 32 ELSE s[i]]

\* String.prototype.includes.
Includes(s, sub) ==
    \E i \in 1..(Len(s) - Len(sub) + 1) : SubSeq(s, i, i + Len(sub) - 1) = sub

\* 'diet'
Diet == <<100, 105, 101, 116>>

\* "Suggest a random self-care activity with a brief explanation why it's beneficial. Keep it concise and friendly."
SuggestionPrompt ==
    <<83,117,103,103,101,115,116,32,97,32,114,97,110,100,111,109,32,115,101,108,102,45,99,97,
    114,101,32,97,99,116,105,118,105,116,121,32,119,105,116,104,32,97,32,98,114,105,101,102,32,
    101,120,112,108,97,110,97,116,105,111,110,32,119,104,121,32,105,116,39,115,32,98,101,110,
    101,102,105,99,105,97,108,46,32,75,101,101,112,32,105,116,32,99,111,110,99,105,115,101,32,
    97,110,100,32,102,114,105,101,110,100,108,121,46>>

\* "Provide a detailed 7-day vegetarian diet plan with breakfast, lunch, dinner and snacks. Include calorie counts and nutritional benefits. The request was: "
DietPrefix ==
    <<80,114,111,118,105,100,101,32,97,32,100,101,116,97,105,108,101,100,32,55,45,100,97,121,32,
    118,101,103,101,116,97,114,105,97,110,32,100,105,101,116,32,112,108,97,110,32,119,105,116,
    104,32,98,114,101,97,107,102,97,115,116,44,32,108,117,110,99,104,44,32,100,105,110,110,101,
    114,32,97,110,100,32,115,110,97,99,107,115,46,32,73,110,99,108,117,100,101,32,99,97,108,111,
    114,105,101,32,99,111,117,110,116,115,32,97,110,100,32,110,117,116,114,105,116,105,111,110,
    97,108,32,98,101,110,101,102,105,116,115,46,32,84,104,101,32,114,101,113,117,101,115,116,32,
    119,97,115,58,32>>

\* "As a professional self-care assistant, provide specific advice for: "
CarePrefix ==
    <<65,115,32,97,32,112,114,111,102,101,115,115,105,111,110,97,108,32,115,101,108,102,45,99,
    97,114,101,32,97,115,115,105,115,116,97,110,116,44,32,112,114,111,118,105,100,101,32,115,
    112,101,99,105,102,105,99,32,97,100,118,105,99,101,32,102,111,114,58,32>>

\* ". Give practical steps rather than asking follow-up questions."
CareSuffix ==
    <<46,32,71,105,118,101,32,112,114,97,99,116,105,99,97,108,32,115,116,101,112,115,32,114,97,
    116,104,101,114,32,116,104,97,110,32,97,115,107,105,110,103,32,102,111,108,108,111,119,45,
    117,112,32,113,117,101,115,116,105,111,110,115,46>>

\* Mutant: the test is message.includes('diet'), without toLowerCase().
ChatPromptCaseSensitive(message) ==
    IF Includes(message, Diet)
    THEN DietPrefix \o message
    ELSE CarePrefix \o message \o CareSuffix

\* The prompt template literal of app.post('/api/chat').
ChatPrompt(message) ==
    IF Includes(ToLowerCase(message), Diet)
    THEN DietPrefix \o message
    ELSE CarePrefix \o message \o CareSuffix

\* catch of app.get('/api/suggestions'): console.error and a fixed 500 body.
SuggestionFailure(error) == [status |-> 500, body |-> [error |-> "Failed to get suggestion"]]

\* Mutant: the catch sends error.message.
ChatFailureWithDetail(error) == [status |-> 500, body |-> [error |-> error]]

\* catch of app.post('/api/chat'): console.error and a fixed 500 body.
ChatFailure(error) == [status |-> 500, body |-> [error |-> "Failed to process chat message"]]

\* The TypeError of message.toLowerCase() when the body holds no message.
NoMessageError == "TypeError: Cannot read properties of undefined (reading 'toLowerCase')"

\* The proxies keep nothing between requests: each one starts from scratch.
AiCanIssue == ai.pc = "idle"

\* GET /api/suggestions: the handler calls the model with the fixed prompt.
GetSuggestion ==
    /\ AiCanIssue
    /\ ai' = [pc |-> "calling", op |-> "suggestion", prompt |-> SuggestionPrompt]
    /\ UNCHANGED <<table, seq, req, issued, acked, returned, log>>

\* POST /api/chat: the handler builds the prompt from the message and calls the
\* model; a body without a message throws before any call and is caught.
PostChat ==
    /\ AiCanIssue
    /\ \E m \in MessageInputs :
          IF m.js = "string"
          THEN /\ ai' = [pc |-> "calling", op |-> "chat", message |-> m.v, prompt |-> ChatPrompt(m.v)]
               /\ UNCHANGED log
          ELSE /\ ai' = [pc |-> "replied", op |-> "chat", called |-> FALSE, failed |-> FALSE,
                         resp |-> ChatFailure(NoMessageError)]
               /\ log' = log \cup {[tag |-> "Chat Error:", error |-> NoMessageError]}
    /\ UNCHANGED <<table, seq, req, issued, acked, returned>>

\* The model answers: the handler sends its text.
UpstreamReplies ==
    /\ ai.pc = "calling"
    /\ \E text \in UpstreamTexts :
          ai' = With(ai, [pc |-> "replied", called |-> TRUE, failed |-> FALSE,
                          resp |-> [status |-> 200,
                                    body |-> IF ai.op = "suggestion" THEN [suggestion |-> text]
                                             ELSE [reply |-> text]]])
    /\ UNCHANGED <<table, seq, req, issued, acked, returned, log>>

\* The call to the model fails: the handler logs the error and sends the fixed body.
UpstreamFails ==
    /\ ai.pc = "calling"
    /\ \E e \in UpstreamErrors :
          /\ ai' = With(ai, [pc |-> "replied", called |-> TRUE, failed |-> TRUE, error |-> e,
                             resp |-> IF ai.op = "suggestion" THEN SuggestionFailure(e)
                                      ELSE ChatFailure(e)])
          /\ log' = log \cup {[tag |-> IF ai.op = "suggestion" THEN "API Error:" ELSE "Chat Error:",
                               error |-> e]}
    /\ UNCHANGED <<table, seq, req, issued, acked, returned>>

\* The response has been sent: nothing of the request remains but the log.
AiRequestEnds ==
    /\ ai.pc = "replied"
    /\ ai' = AiIdle
    /\ UNCHANGED <<table, seq, req, issued, acked, returned, log>>

ProxyNext ==
    \/ GetSuggestion
    \/ PostChat
    \/ UpstreamReplies
    \/ UpstreamFails
    \/ AiRequestEnds

ProxySpec == Init /\ [][ProxyNext]_vars

\* ------------------------------------------------------- properties

Replied(c, op) == req[c].pc = "replied" /\ req[c].op = op
Succeeded(c, op) == Replied(c, op) /\ req[c].err = NoError
Failed(c) == req[c].pc = "replied" /\ req[c].err # NoError

\* The row is the one a client expects back for an acknowledged reminder: the
\* id it was given, the activity and scheduled_time strings it sent, completed 0.
IsRowAsSent(r, k) ==
    /\ r.id = k.id
    /\ r.activity.cls = "text" /\ r.activity.v = k.activity.v
    /\ r.scheduled_time.cls = "text" /\ r.scheduled_time.v = k.scheduled_time.v
    /\ r.completed = 0

\* C1: a list that was requested after an insert was acknowledged with id i, and
\* answered before any delete of i was requested, returns the row with id i,
\* the activity and scheduled_time that were sent, and completed 0.
C1_ListReturnsInsertedAsSent ==
    \A c \in Clients :
        Succeeded(c, "select") =>
            \A k \in req[c].must : \E r \in Range(req[c].resp.body.rows) : IsRowAsSent(r, k)

\* C2: a successful list returns every row the table held when the SELECT ran,
\* each exactly once, and no row comes before one whose scheduled_time sorts
\* after it (in the store's order: numbers by value, then text by bytes).
C2_ListIsCompleteAndDescending ==
    \A c \in Clients :
        Succeeded(c, "select") =>
            LET rows == req[c].resp.body.rows
            IN /\ req[c].resp.status = 200
               /\ Range(rows) = req[c].snapshot
               /\ Len(rows) = Cardinality(req[c].snapshot)
               /\ \A i, j \in 1..Len(rows) :
                     i < j => ~SqlLess(rows[i].scheduled_time, rows[j].scheduled_time)

\* C2 witness: a list answered with two rows of which the one inserted later
\* (the larger id) has the larger scheduled_time and comes first, and with a
\* number sorted below a text.
C2_Witness ==
    \E c \in Clients :
        /\ Succeeded(c, "select")
        /\ LET rows == req[c].resp.body.rows
           IN /\ Len(rows) = 2
              /\ rows[1].id > rows[2].id
              /\ rows[1].scheduled_time.cls = "text"
              /\ rows[2].scheduled_time.cls = "integer"

\* The id a path segment names: its decimal value, when it is all digits.
NamesId(path, id) == IsIntegerLiteral(path) /\ ToInteger(path) = id

\* C3: a DELETE that runs removes the row whose id the path names, if the table
\* holds it, and no other row; when the table holds no such row it is left as it
\* was; the response is 200 {message: 'Reminder deleted'} in both cases, and
\* running the same delete again would change nothing more.
C3_DeleteRemovesExactlyThatRow ==
    [][\A c \in Clients :
          /\ (req[c].pc = "queued" /\ req[c].op = "delete"
                /\ req'[c].pc = "executed" /\ req'[c].err = NoError)
             => /\ table' = {r \in table : ~NamesId(req[c].path, r.id)}
                /\ Cardinality(table \ table') <= 1
                /\ DeleteRows(table', req[c].path) = table'
          /\ (req[c].pc = "executed" /\ req[c].op = "delete"
                /\ req[c].err = NoError /\ req'[c].pc = "replied")
             => req'[c].resp = [status |-> 200, body |-> [message |-> "Reminder deleted"]]
      ]_vars

\* C3 witness: a delete of "1" was answered with success after ids 1 and 2 had
\* been returned; the row with id 1 is gone and the row with id 2 is still there.
C3_Witness ==
    \E c \in Clients :
        /\ Succeeded(c, "delete") /\ req[c].path = <<49>>
        /\ req[c].resp.status = 200
        /\ Len(returned) = 2
        /\ {r.id : r \in table} = {2}

NoDuplicates(s) == \A i, j \in 1..Len(s) : i # j => s[i] # s[j]

\* C4: the id a successful insert returns is greater than every id returned
\* before that insert was requested, no id is returned twice, and no two rows
\* of the table share an id.
C4_IdsNeverReused ==
    /\ \A c \in Clients :
          Succeeded(c, "insert") =>
              \A j \in req[c].before : req[c].resp.body.id > j
    /\ NoDuplicates(returned)
    /\ \A r1, r2 \in table : r1.id = r2.id => r1 = r2

\* C4 witness: id 1 had been returned, the table was empty again when the next
\* INSERT ran (the row with the highest id had been deleted), and that insert
\* returned 2.
C4_Witness ==
    \E c \in Clients :
        /\ Succeeded(c, "insert")
        /\ req[c].before = {1}
        /\ req[c].held = {}
        /\ req[c].resp.body.id = 2

\* The message holds d, i, e, t in a row, each in either case.
HasDietAnyCase(m) ==
    \E i \in 1..(Len(m) - 3) :
        /\ m[i] \in {100, 68}
        /\ m[i + 1] \in {105, 73}
        /\ m[i + 2] \in {101, 69}
        /\ m[i + 3] \in {116, 84}

IsDietPrompt(p, m) == p = DietPrefix \o m
IsCarePrompt(p, m) == p = CarePrefix \o m \o CareSuffix

C6_UpstreamFailureIsGeneric ==
    (ai.pc = "replied" /\ ai.failed) =>
        /\ ai.resp.status = 500
        /\ DOMAIN ai.resp.body = {"error"}
        /\ ai.resp.body.error \notin UpstreamErrors
        /\ ai.resp.body.error =
              (IF ai.op = "suggestion" THEN "Failed to get suggestion"
               ELSE "Failed to process chat message")

\* C6 witness: a chat request whose upstream call failed has been answered.
C6_Witness ==
    /\ ai.pc = "replied" /\ ai.op = "chat" /\ ai.failed
    /\ ai.error = "fetch failed"
    /\ ai.resp.status = 500

\* C7: a reminder request whose statement failed is answered with 500 and a
\* message that is not the storage error's own, and the error is logged.
C7_StoreFailureIsGenericAndLogged ==
    \A c \in Clients :
        Failed(c) =>
            /\ req[c].resp.status = 500
            /\ req[c].resp.body.error # req[c].err
            /\ \E entry \in log : entry.error = req[c].err

\* C8: every stored row has an activity and a scheduled_time that are not NULL
\* and completed 0; an insert whose body lacks activity or scheduled_time fails
\* and is answered with 500.
C8_RowsAreCompleteAndNotCompleted ==
    /\ \A r \in table :
          /\ r.activity.cls # "null"
          /\ r.scheduled_time.cls # "null"
          /\ r.completed = 0
    /\ \A c \in Clients :
          (Replied(c, "insert") /\ Undefined \in {req[c].activity, req[c].scheduled_time})
              => (req[c].err # NoError /\ req[c].resp.status = 500)

\* C8 witness: an insert without scheduled_time was answered while the table
\* holds a row, and no row came of it.
C8_Witness ==
    \E c \in Clients :
        /\ Replied(c, "insert")
        /\ req[c].activity = JsString("Meditate")
        /\ req[c].scheduled_time = Undefined
        /\ Cardinality(table) = 1
        /\ seq = 1

\* C9: no stored row has an empty activity.
C9_ActivityNonEmpty ==
    \A r \in table : r.activity # SqlText("")

\* C10: inserts that were in flight together were all stored under ids of their
\* own: no id is returned twice, the row under the id an insert returned is
\* the row of that insert, every acknowledged reminder is in the table until a
\* delete of it is requested, and a list returns the table as it was at one
\* instant while the list was in flight.
C10_ConcurrentRequestsSerialize ==
    /\ NoDuplicates(returned)
    /\ \A c \in Clients :
          Succeeded(c, "insert") =>
              \A r \in table :
                  r.id = req[c].resp.body.id =>
                      (/\ r.activity.v = req[c].activity.v
                       /\ r.scheduled_time = NumericAffinity(SqlText(req[c].scheduled_time.v)))
    /\ \A k \in acked : \E r \in table : r.id = k.id /\ r.activity.v = k.activity.v
    /\ \A c \in Clients :
          Succeeded(c, "select") => Range(req[c].resp.body.rows) = req[c].snapshot

\* C10 witness: two inserts with different activities were requested before
\* either was answered, the one that ran second was answered first, and both
\* rows are in the table.
C10_Witness ==
    \E c, d \in Clients :
        /\ c # d
        /\ Succeeded(c, "insert") /\ Succeeded(d, "insert")
        /\ req[c].before = {} /\ req[d].before = {}
        /\ req[c].activity # req[d].activity
        /\ returned = <<2, 1>>
        /\ Cardinality(table) = 2

====
